---- MODULE Spec2Model ----
(***************************************************************************)
(* The syscall trap dispatcher of pintos/src/userprog/syscall.c: address   *)
(* validation, argument marshaling, the per-syscall handlers, the global   *)
(* filesystem lock and the exec/load handshake, as a state machine over a  *)
(* bounded set of kernel threads.                                          *)
(***************************************************************************)
EXTENDS Integers, Sequences, FiniteSets, TLC

\* ---------------------------------------------------------------- bounds
NProcs == 2            \* thread slots: 1 is the initial process, the rest are exec'ed
MaxSize == 2           \* largest byte count given to a console read
MaxOpen == 1           \* descriptors one process may allocate before opens stop

\* ------------------------------------------------------- program constants
\* A 32-bit word is held as the value of the C int with that bit pattern
\* (two's complement), so 0xc0000000 is -1073741824 and 0xffffffff is -1; the
\* casts between int, unsigned and void * keep the pattern, and the unsigned
\* comparisons and the pointer arithmetic of the code are ULt, UGe and AddW.
INT_MAX == 2147483647
INT_MIN == (-INT_MAX) - 1
USER_BASE == 134512640        \* 0x8048000
KERNEL_BASE == -1073741824    \* 0xc0000000
FD_FULL == 64                 \* add_file's "table full" result
NULL == 0
TID_ERROR == -1
FIRST_FD == 2

Procs == 1 .. NProcs

\* a < b and a >= b on unsigned operands
ULt(a, b) == IF (a >= 0) = (b >= 0) THEN a < b ELSE a >= 0
UGe(a, b) == ~ULt(a, b)

\* a + k on 32 bits, for a small k >= 0
AddW(a, k) == IF a > INT_MAX - k THEN INT_MIN + ((a - (INT_MAX - k)) - 1) ELSE a + k

\* syscall-nr.h numbering, as the switch of syscall_handler names the cases
SysNames ==
  << "SYS_HALT", "SYS_EXIT", "SYS_EXEC", "SYS_WAIT", "SYS_CREATE", "SYS_REMOVE",
     "SYS_OPEN", "SYS_FILESIZE", "SYS_READ", "SYS_WRITE", "SYS_SEEK", "SYS_TELL",
     "SYS_CLOSE" >>

SyscallCase(n) ==
  IF n \in 0 .. (Len(SysNames) - 1) THEN SysNames[n + 1] ELSE "default"

\* the count each case passes to get_argument
ArgCount(c) ==
  CASE c \in {"SYS_HALT", "default"} -> 0
    [] c \in {"SYS_CREATE", "SYS_SEEK"} -> 2
    [] c \in {"SYS_READ", "SYS_WRITE"} -> 3
    [] OTHER -> 1

\* (a dispatcher that hands no argument to check_address)
PtrSlot_none(c) == 0

\* the argument slot each case hands to check_address before its handler (0: none)
PtrSlot(c) ==
  CASE c \in {"SYS_EXEC", "SYS_CREATE", "SYS_REMOVE", "SYS_OPEN"} -> 1
    [] c \in {"SYS_READ", "SYS_WRITE"} -> 2
    [] OTHER -> 0

\* ------------------------------------------------------------ input sets
\* What user code may put in the trap frame and on its stack.  Wide is used
\* where one thread is followed through every case of the dispatcher, Narrow
\* where several threads interleave.
\* Stack pointers: null, both edges of the user range, the last aligned words
\* below KERNEL_BASE (slot k of get_argument lands on KERNEL_BASE), unaligned
\* pointers whose 4-byte read straddles KERNEL_BASE, kernel addresses, and the
\* word below 0x80000000, where the int changes sign.
Wide ==
  [ esps |-> { 0, USER_BASE - 1, USER_BASE, INT_MAX - 3, KERNEL_BASE - 12,
               KERNEL_BASE - 8, KERNEL_BASE - 5, KERNEL_BASE - 4, KERNEL_BASE - 1,
               KERNEL_BASE, -1 },
    ptrs |-> { 0, USER_BASE - 1, USER_BASE, INT_MAX, INT_MIN, KERNEL_BASE - 1,
               KERNEL_BASE, -1 },
    fds |-> (-1) .. (FIRST_FD + MaxOpen),
    sizes |-> 0 .. MaxSize,
    big |-> { INT_MIN, -1 },          \* 0x80000000 and 0xffffffff
    statuses |-> { 0, 1, -1 },
    tids |-> Procs \cup { TID_ERROR },
    numbers |-> (0 .. 13) \cup { -1 } ]

Narrow ==
  [ esps |-> { USER_BASE, KERNEL_BASE },
    ptrs |-> { USER_BASE, 0 },
    fds |-> 0 .. FIRST_FD,
    sizes |-> { 0, MaxSize },
    big |-> { },
    statuses |-> { 0, -1 },
    tids |-> Procs,
    numbers |-> 0 .. 13 ]

Chars == { 97, 98 }           \* what input_getc may deliver
Names == { "prog", "data" }   \* what a name pointer may point at

\* the words user memory may hold in the slots a case reads, under profile I
ArgChoices(c, I) ==
  CASE c \in {"SYS_HALT", "default"} -> { << >> }
    [] c = "SYS_EXIT" -> { << s >> : s \in I.statuses }
    [] c \in {"SYS_EXEC", "SYS_REMOVE", "SYS_OPEN"} -> { << a >> : a \in I.ptrs }
    [] c = "SYS_WAIT" -> { << t >> : t \in I.tids }
    [] c = "SYS_CREATE" -> { << a, 0 >> : a \in I.ptrs }
    [] c \in {"SYS_FILESIZE", "SYS_TELL", "SYS_CLOSE"} -> { << d >> : d \in I.fds }
    [] c = "SYS_SEEK" -> { << d, 0 >> : d \in I.fds }
    [] c = "SYS_READ" ->
         { << d, a, n >> : d \in I.fds, a \in I.ptrs, n \in I.sizes }
           \cup { << d, USER_BASE, n >> : d \in I.fds \ {0}, n \in I.big }
    [] c = "SYS_WRITE" ->
         { << d, a, n >> : d \in I.fds, a \in I.ptrs, n \in I.sizes }
           \cup { << d, USER_BASE, n >> : d \in I.fds, n \in I.big }

\* ----------------------------------------------------------------- state
VARIABLES
  machine,       \* "on", "off" (shutdown_power_off) or "panic" (kernel panic)
  pc,            \* pc[p]: where thread p stands
  sys,           \* sys[p]: the case of the switch the current trap took
  arg,           \* arg[p]: the slots of int arg[3] get_argument has filled
  eax,           \* eax[p]: the trap frame's result slot (NoValue: not written)
  log,           \* log[p]: what the current trap has done so far, in order
  exit_status,   \* exit_status[p]: struct thread's exit_status
  filesys_lock,  \* holder of filesys_lock, NULL when free
  fdt,           \* fdt[p]: descriptors of p's table that hold a file
  next_fd,       \* next_fd[p]: the descriptor add_file hands out next
  is_load,       \* is_load[c]: the child's load-success flag
  load,          \* load[c]: value of the child's load semaphore
  parent,        \* parent[c]: the thread that exec'ed c (NULL: none)
  waited,        \* waited[c]: process_wait already returned for c
  tid,           \* tid[p]: exec's local tid
  cp,            \* cp[p]: exec's local cp (NULL or a child)
  fh,            \* fh[p]: the handler's local f (NULL or a handle)
  idx,           \* idx[p]: read's loop counter i
  signaled       \* signaled[c]: "no", or the flag ("loaded", "failed") c's sema_up went with

vars ==
  << machine, pc, sys, arg, eax, log, exit_status, filesys_lock, fdt, next_fd,
     is_load, load, parent, waited, tid, cp, fh, idx, signaled >>

NoValue == [written |-> FALSE, value |-> 0]
FILE == 1         \* a non-null struct file *

\* The initial process is followed from one of two points of its life: with an
\* empty descriptor table, or with every slot from FIRST_FD up taken, so that
\* process_add_file has no descriptor left to hand out.
Init ==
  /\ machine = "on"
  /\ pc = [p \in Procs |-> IF p = 1 THEN "user" ELSE "unborn"]
  /\ sys = [p \in Procs |-> "none"]
  /\ arg = [p \in Procs |-> << >>]
  /\ eax = [p \in Procs |-> NoValue]
  /\ log = [p \in Procs |-> << >>]
  /\ exit_status = [p \in Procs |-> 0]
  /\ filesys_lock = NULL
  /\ \E full \in BOOLEAN :
       /\ fdt = [p \in Procs |->
                  IF p = 1 /\ full THEN FIRST_FD .. (FD_FULL - 1) ELSE {}]
       /\ next_fd = [p \in Procs |-> IF p = 1 /\ full THEN FD_FULL ELSE FIRST_FD]
  /\ is_load = [p \in Procs |-> FALSE]
  /\ load = [p \in Procs |-> 0]
  /\ parent = [p \in Procs |-> NULL]
  /\ waited = [p \in Procs |-> FALSE]
  /\ tid = [p \in Procs |-> 0]
  /\ cp = [p \in Procs |-> NULL]
  /\ fh = [p \in Procs |-> NULL]
  /\ idx = [p \in Procs |-> 0]
  /\ signaled = [p \in Procs |-> "no"]

\* ------------------------------------------------- validator and marshaler
\* (the comparison with 0xc0000000 written with > for >=)
check_address_gt(addr) ==
  IF ULt(addr, USER_BASE) \/ ULt(KERNEL_BASE, addr) THEN "exit" ELSE "return"

\* check_address: "exit" when it calls exit (-1), "return" when it returns
check_address(addr) ==
  IF ULt(addr, USER_BASE) \/ UGe(addr, KERNEL_BASE) THEN "exit" ELSE "return"

\* (exit storing the status a second time after the notice)
exit_events_twice(status) ==
  << << "exit_status", status >>, << "printf", status >>, << "exit_status", status >> >>

\* what exit (status) does before thread_exit: the status write and the notice
exit_events(status) == << << "exit_status", status >>, << "printf", status >> >>

\* (get_argument reading each slot before it checks the slot's address)
RECURSIVE get_argument_from_late(_, _, _, _, _, _)
get_argument_from_late(sp, words, count, i, filled, done) ==
  IF ~(i < count)
    THEN [arg |-> filled, log |-> done, exited |-> FALSE]
    ELSE LET a == AddW(sp, 4 + 4 * i) IN
         IF check_address(a) = "exit"
           THEN [arg |-> filled,
                 log |-> done \o << << "read", a, 0 >>, << "check", a >> >> \o exit_events(-1),
                 exited |-> TRUE]
           ELSE get_argument_from_late(sp, words, count, i + 1,
                                       Append(filled, words[i + 1]),
                                       done \o << << "read", a, words[i + 1] >>, << "check", a >> >>)

\* get_argument's loop from slot i on: words are the user stack's slot contents
RECURSIVE get_argument_from(_, _, _, _, _, _)
get_argument_from(sp, words, count, i, filled, done) ==
  IF ~(i < count)
    THEN [arg |-> filled, log |-> done, exited |-> FALSE]
    ELSE LET a == AddW(sp, 4 + 4 * i) IN
         IF check_address(a) = "exit"
           THEN [arg |-> filled,
                 log |-> done \o << << "check", a >> >> \o exit_events(-1),
                 exited |-> TRUE]
           ELSE get_argument_from(sp, words, count, i + 1,
                                  Append(filled, words[i + 1]),
                                  done \o << << "check", a >>, << "read", a, words[i + 1] >> >>)

get_argument(sp, words, count) == get_argument_from(sp, words, count, 0, << >>, << >>)

\* ------------------------------------------------------------- dispatcher
\* (the default case calling exit (-1))
default_case_exit == "exit"

\* what the default case of the switch calls
default_case == "thread_exit"

\* syscall_handler up to the call of the handler: sp is f->esp, n the word at
\* [sp], words the contents of the argument slots
dispatch(sp, n, words) ==
  IF check_address(sp) = "exit"
    THEN [outcome |-> "exit", case |-> "none", arg |-> << >>,
          log |-> << << "check", sp >> >> \o exit_events(-1)]
    ELSE
      LET c == SyscallCase(n)
          head == << << "check", sp >>, << "read", sp, n >> >>
          ga == get_argument(sp, words, ArgCount(c))
          k == PtrSlot(c)
      IN  IF ga.exited
            THEN [outcome |-> "exit", case |-> c, arg |-> ga.arg, log |-> head \o ga.log]
          ELSE IF k # 0 /\ check_address(ga.arg[k]) = "exit"
            THEN [outcome |-> "exit", case |-> c, arg |-> ga.arg,
                  log |-> head \o ga.log \o << << "check", ga.arg[k] >> >>
                            \o exit_events(-1)]
          ELSE IF c = "default" /\ default_case = "exit"
            THEN [outcome |-> "exit", case |-> c, arg |-> ga.arg,
                  log |-> head \o ga.log \o exit_events(-1)]
          ELSE [outcome |-> IF c = "default" THEN "thread_exit" ELSE "handler",
                case |-> c, arg |-> ga.arg,
                log |-> head \o ga.log \o
                          (IF k # 0 THEN << << "check", ga.arg[k] >> >>
                                    ELSE << >>)]

Running(p) == machine = "on" /\ pc[p] \notin {"unborn", "dead"}

\* one trap of thread p with f->esp = sp, the word n at [sp] and the argument
\* slots holding words: validation, the number, the arguments, the case
syscall_handler(p, sp, n, words) ==
  /\ machine = "on"
  /\ pc[p] = "user"
  /\ \E d \in { dispatch(sp, n, words) } :
       /\ sys' = [sys EXCEPT ![p] = d.case]
       /\ arg' = [arg EXCEPT ![p] = d.arg]
       /\ log' = [log EXCEPT ![p] = d.log]
       /\ pc' = [pc EXCEPT ![p] =
                   CASE d.outcome = "exit" -> "thread_exit"
                     [] d.outcome = "thread_exit" -> "thread_exit"
                     [] OTHER -> d.case]
       /\ exit_status' =
            IF d.outcome = "exit" THEN [exit_status EXCEPT ![p] = -1]
                                  ELSE exit_status
  /\ UNCHANGED << machine, eax, filesys_lock, fdt, next_fd, is_load, load, parent,
                  waited, tid, cp, fh, idx, signaled >>

\* how many of the count slots above sp get_argument gets to read
Readable(sp, count) ==
  Cardinality({ i \in 0 .. (count - 1) :
                 \A j \in 0 .. i : check_address(AddW(sp, 4 + 4 * j)) = "return" })

\* a trap of p with any of the inputs of profile I (what lies at [sp] and in
\* the slots above is only chosen where it is read; a thread stops opening
\* files once it has been handed MaxOpen descriptors, unless its table is
\* full already)
Trap(p, I) ==
  /\ pc[p] = "user"
  /\ \E sp \in I.esps :
       IF check_address(sp) = "exit"
         THEN syscall_handler(p, sp, 0, << >>)
         ELSE \E n \in I.numbers :
                /\ SyscallCase(n) = "SYS_OPEN" =>
                     (next_fd[p] < FIRST_FD + MaxOpen \/ next_fd[p] >= FD_FULL)
                /\ \E r \in { Readable(sp, ArgCount(SyscallCase(n))) } :
                     \E words \in { SubSeq(w, 1, r) : w \in ArgChoices(SyscallCase(n), I) } :
                       syscall_handler(p, sp, n, words)

\* f->eax = v, then the handler's break: back to the interrupt return
\* (events: what the handler did in this step before it returned v)
WriteResult(p, events, v) ==
  /\ eax' = [eax EXCEPT ![p] = [written |-> TRUE, value |-> v]]
  /\ log' = [log EXCEPT ![p] = @ \o events \o << << "eax", v >> >>]
  /\ pc' = [pc EXCEPT ![p] = "ret"]

\* a handler without a result returns: the break of its case
ReturnVoid(p, events) ==
  /\ log' = [log EXCEPT ![p] = @ \o events]
  /\ pc' = [pc EXCEPT ![p] = "ret"]
  /\ UNCHANGED eax

\* the kernel dereferences a null pointer (or trips an ASSERT on one): it
\* panics, or the fault handler kills the thread with exit (-1)
KernelFault(p, events) ==
  \/ /\ machine' = "panic"
     /\ log' = [log EXCEPT ![p] = @ \o events]
     /\ UNCHANGED << pc, exit_status >>
  \/ /\ pc' = [pc EXCEPT ![p] = "thread_exit"]
     /\ exit_status' = [exit_status EXCEPT ![p] = -1]
     /\ log' = [log EXCEPT ![p] = @ \o events \o exit_events(-1)]
     /\ UNCHANGED machine

\* the interrupt returns to user mode: the trap frame and the locals are gone
intr_exit(p) ==
  /\ machine = "on"
  /\ pc[p] = "ret"
  /\ pc' = [pc EXCEPT ![p] = "user"]
  /\ sys' = [sys EXCEPT ![p] = "none"]
  /\ arg' = [arg EXCEPT ![p] = << >>]
  /\ eax' = [eax EXCEPT ![p] = NoValue]
  /\ log' = [log EXCEPT ![p] = << >>]
  /\ tid' = [tid EXCEPT ![p] = 0]
  /\ cp' = [cp EXCEPT ![p] = NULL]
  /\ fh' = [fh EXCEPT ![p] = NULL]
  /\ idx' = [idx EXCEPT ![p] = 0]
  /\ UNCHANGED << machine, exit_status, filesys_lock, fdt, next_fd, is_load, load,
                  parent, waited, signaled >>

\* ------------------------------------------------------ process lifecycle
\* halt: shutdown_power_off
halt(p) ==
  /\ machine = "on"
  /\ pc[p] = "SYS_HALT"
  /\ machine' = "off"
  /\ log' = [log EXCEPT ![p] = Append(@, << "shutdown_power_off", 0 >>)]
  /\ UNCHANGED << pc, sys, arg, eax, exit_status, filesys_lock, fdt, next_fd, is_load,
                  load, parent, waited, tid, cp, fh, idx, signaled >>

\* exit (arg[0]): the status write and the notice; thread_exit is the next step
exit(p) ==
  /\ machine = "on"
  /\ pc[p] = "SYS_EXIT"
  /\ exit_status' = [exit_status EXCEPT ![p] = arg[p][1]]
  /\ log' = [log EXCEPT ![p] = @ \o exit_events(arg[p][1])]
  /\ pc' = [pc EXCEPT ![p] = "thread_exit"]
  /\ UNCHANGED << machine, sys, arg, eax, filesys_lock, fdt, next_fd, is_load, load,
                  parent, waited, tid, cp, fh, idx, signaled >>

\* thread_exit: the thread and its kernel stack (trap frame, locals) are gone;
\* its record keeps exit_status for the parent.  A lock it holds stays held.
thread_exit(p) ==
  /\ machine = "on"
  /\ pc[p] = "thread_exit"
  /\ pc' = [pc EXCEPT ![p] = "dead"]
  /\ sys' = [sys EXCEPT ![p] = "none"]
  /\ arg' = [arg EXCEPT ![p] = << >>]
  /\ eax' = [eax EXCEPT ![p] = NoValue]
  /\ log' = [log EXCEPT ![p] = << >>]
  /\ tid' = [tid EXCEPT ![p] = 0]
  /\ cp' = [cp EXCEPT ![p] = NULL]
  /\ fh' = [fh EXCEPT ![p] = NULL]
  /\ idx' = [idx EXCEPT ![p] = 0]
  /\ UNCHANGED << machine, exit_status, filesys_lock, fdt, next_fd, is_load, load,
                  parent, waited, signaled >>

\* (exec taking filesys_lock around process_execute and keeping it while it
\* waits for the child)
exec_process_execute_locked(p) ==
  /\ machine = "on"
  /\ pc[p] = "SYS_EXEC"
  /\ filesys_lock = NULL
  /\ filesys_lock' = p
  /\ \/ \E c \in Procs :
          /\ pc[c] = "unborn"
          /\ \A b \in Procs : pc[b] = "unborn" => c <= b
          /\ pc' = [pc EXCEPT ![p] = "sema_down", ![c] = "loading"]
          /\ parent' = [parent EXCEPT ![c] = p]
          /\ tid' = [tid EXCEPT ![p] = c]
          /\ cp' = [cp EXCEPT ![p] = c]
          /\ log' = [log EXCEPT ![p] = Append(@, << "process_execute", c >>)]
     \/ /\ pc' = [pc EXCEPT ![p] = "sema_down"]
        /\ tid' = [tid EXCEPT ![p] = TID_ERROR]
        /\ cp' = [cp EXCEPT ![p] = NULL]
        /\ log' = [log EXCEPT ![p] = Append(@, << "process_execute", TID_ERROR >>)]
        /\ UNCHANGED parent
  /\ UNCHANGED << machine, sys, arg, eax, exit_status, fdt, next_fd,
                  is_load, load, waited, fh, idx, signaled >>

\* process_execute: a new thread in the lowest free slot, or TID_ERROR when
\* the thread cannot be created; then get_child_process (tid)
exec_process_execute(p) ==
  /\ machine = "on"
  /\ pc[p] = "SYS_EXEC"
  /\ \/ \E c \in Procs :
          /\ pc[c] = "unborn"
          /\ \A b \in Procs : pc[b] = "unborn" => c <= b
          /\ pc' = [pc EXCEPT ![p] = "sema_down", ![c] = "loading"]
          /\ parent' = [parent EXCEPT ![c] = p]
          /\ tid' = [tid EXCEPT ![p] = c]
          /\ cp' = [cp EXCEPT ![p] = c]
          /\ log' = [log EXCEPT ![p] = Append(@, << "process_execute", c >>)]
     \/ /\ pc' = [pc EXCEPT ![p] = "sema_down"]
        /\ tid' = [tid EXCEPT ![p] = TID_ERROR]
        /\ cp' = [cp EXCEPT ![p] = NULL]
        /\ log' = [log EXCEPT ![p] = Append(@, << "process_execute", TID_ERROR >>)]
        /\ UNCHANGED parent
  /\ UNCHANGED << machine, sys, arg, eax, exit_status, filesys_lock, fdt, next_fd,
                  is_load, load, waited, fh, idx, signaled >>

\* (exec without its sema_down)
exec_sema_down_skipped(p) ==
  /\ machine = "on"
  /\ pc[p] = "sema_down"
  /\ pc' = [pc EXCEPT ![p] = "exec_check"]
  /\ UNCHANGED << machine, sys, arg, eax, log, exit_status, filesys_lock, fdt, next_fd,
                  is_load, load, parent, waited, tid, cp, fh, idx, signaled >>

\* sema_down (&cp->load), before cp is compared with NULL.  With cp == NULL the
\* semaphore is read through a null pointer: the kernel faults, and either
\* panics or kills the thread with exit (-1).
exec_sema_down(p) ==
  /\ machine = "on"
  /\ pc[p] = "sema_down"
  /\ IF cp[p] = NULL
       THEN /\ KernelFault(p, << << "sema_down", NULL >> >>)
            /\ UNCHANGED load
       ELSE /\ load[cp[p]] > 0
            /\ load' = [load EXCEPT ![cp[p]] = @ - 1]
            /\ log' = [log EXCEPT ![p] = Append(@, << "sema_down", cp[p] >>)]
            /\ pc' = [pc EXCEPT ![p] = "exec_check"]
            /\ UNCHANGED << machine, exit_status >>
  /\ UNCHANGED << sys, arg, eax, filesys_lock, fdt, next_fd, is_load, parent, waited,
                  tid, cp, fh, idx, signaled >>

\* (exec without the test of is_load)
exec_result_unchecked(c, t, loaded) == IF c = NULL THEN -1 ELSE t

\* the value exec returns once sema_down has returned
exec_result(c, t, loaded) ==
  IF c = NULL THEN -1 ELSE IF loaded = FALSE THEN -1 ELSE t

\* the two tests after sema_down, exec's return and f->eax = exec (...)
exec_return(p) ==
  /\ machine = "on"
  /\ pc[p] = "exec_check"
  /\ LET loaded == IF cp[p] = NULL THEN FALSE ELSE is_load[cp[p]] IN
       /\ eax' = [eax EXCEPT ![p] =
                    [written |-> TRUE, value |-> exec_result(cp[p], tid[p], loaded)]]
       /\ log' = [log EXCEPT ![p] =
                    @ \o (IF cp[p] = NULL THEN << >>
                                          ELSE << << "is_load", cp[p] >> >>)
                      \o << << "eax", exec_result(cp[p], tid[p], loaded) >> >>]
  /\ pc' = [pc EXCEPT ![p] = "ret"]
  /\ UNCHANGED << machine, sys, arg, exit_status, filesys_lock, fdt, next_fd, is_load,
                  load, parent, waited, tid, cp, fh, idx, signaled >>

\* the child's side of the handshake: load the image and record the outcome
start_process_load(c) ==
  /\ machine = "on"
  /\ pc[c] = "loading"
  /\ \E ok \in BOOLEAN : is_load' = [is_load EXCEPT ![c] = ok]
  /\ pc' = [pc EXCEPT ![c] = "loaded"]
  /\ UNCHANGED << machine, sys, arg, eax, log, exit_status, filesys_lock, fdt,
                  next_fd, load, parent, waited, tid, cp, fh, idx, signaled >>

\* ... then sema_up (&load); a child whose load failed exits, the other runs
start_process_sema_up(c) ==
  /\ machine = "on"
  /\ pc[c] = "loaded"
  /\ load' = [load EXCEPT ![c] = @ + 1]
  /\ signaled' = [signaled EXCEPT ![c] = IF is_load[c] THEN "loaded" ELSE "failed"]
  /\ pc' = [pc EXCEPT ![c] = IF is_load[c] THEN "user" ELSE "thread_exit"]
  /\ UNCHANGED << machine, sys, arg, eax, log, exit_status, filesys_lock, fdt,
                  next_fd, is_load, parent, waited, tid, cp, fh, idx >>

\* wait: process_wait (tid) returns -1 for a tid that is no child of p or was
\* waited for before, and else blocks until the child is dead
wait(p) ==
  /\ machine = "on"
  /\ pc[p] = "SYS_WAIT"
  /\ LET t == arg[p][1] IN
       IF t \in Procs /\ parent[t] = p /\ ~waited[t]
         THEN /\ pc[t] = "dead"
              /\ waited' = [waited EXCEPT ![t] = TRUE]
              /\ WriteResult(p, << << "process_wait", t >> >>, exit_status[t])
         ELSE /\ WriteResult(p, << << "process_wait", t >> >>, -1)
              /\ UNCHANGED waited
  /\ UNCHANGED << machine, sys, arg, exit_status, filesys_lock, fdt, next_fd, is_load,
                  load, parent, tid, cp, fh, idx, signaled >>

\* ---------------------------------------------------------- file handlers
\* process_get_file (fd): the handle in slot fd of p's table, NULL when there
\* is none.  Slots 0 and 1 belong to the console; whether the table holds
\* something there is the process subsystem's business.
process_get_file(p, fd) ==
  IF fd \in fdt[p] THEN { FILE }
  ELSE IF fd \in { 0, 1 } THEN { NULL, FILE }
  ELSE { NULL }

\* what file_read and file_write may return for a request of size bytes
Transferred(size) == { n \in 0 .. MaxSize : ULt(n, size) \/ n = size }

\* (read without the test of f)
read_path_unchecked(fd, f) == IF fd = 0 THEN "console" ELSE "file"

\* (read testing f before fd)
read_path_null_first(fd, f) ==
  IF f = NULL THEN "fail" ELSE IF fd = 0 THEN "console" ELSE "file"

\* which branch read takes once it has f: the console loop, the early
\* return of -1, or file_read
read_path(fd, f) == IF fd = 0 THEN "console" ELSE IF f = NULL THEN "fail" ELSE "file"

\* which branch write takes once it has f: putbuf, the early return of -1,
\* or file_write
write_path(fd, f) == IF fd = 1 THEN "console" ELSE IF f = NULL THEN "fail" ELSE "file"

\* filesize's branch: the early return of -1, or file_length
filesize_path(f) == IF f = NULL THEN "fail" ELSE "file"

GET(f) == << "process_get_file", f >>
ACQUIRE == << "lock_acquire", 0 >>
RELEASE == << "lock_release", 0 >>

\* (lock_acquire returning while another thread holds the lock)
lock_acquire_nowait(p) == TRUE

\* lock_acquire (&filesys_lock) returns to p only when no thread holds the lock
lock_acquire(p) == filesys_lock = NULL

\* create: the null test, then into filesys_create
create(p) ==
  /\ machine = "on"
  /\ pc[p] = "SYS_CREATE"
  /\ IF arg[p][1] = NULL
       THEN WriteResult(p, << >>, 0)
       ELSE /\ pc' = [pc EXCEPT ![p] = "filesys_create"]
            /\ log' = [log EXCEPT ![p] = Append(@, << "filesys_create", arg[p][1] >>)]
            /\ UNCHANGED eax
  /\ UNCHANGED << machine, sys, arg, exit_status, filesys_lock, fdt, next_fd, is_load,
                  load, parent, waited, tid, cp, fh, idx, signaled >>

\* filesys_create returns true or false, which create returns
create_return(p) ==
  /\ machine = "on"
  /\ pc[p] = "filesys_create"
  /\ \E ok \in { 0, 1 } : WriteResult(p, << >>, ok)
  /\ UNCHANGED << machine, sys, arg, exit_status, filesys_lock, fdt, next_fd, is_load,
                  load, parent, waited, tid, cp, fh, idx, signaled >>

\* remove: the null test, then into filesys_remove
remove(p) ==
  /\ machine = "on"
  /\ pc[p] = "SYS_REMOVE"
  /\ IF arg[p][1] = NULL
       THEN WriteResult(p, << >>, 0)
       ELSE /\ pc' = [pc EXCEPT ![p] = "filesys_remove"]
            /\ log' = [log EXCEPT ![p] = Append(@, << "filesys_remove", arg[p][1] >>)]
            /\ UNCHANGED eax
  /\ UNCHANGED << machine, sys, arg, exit_status, filesys_lock, fdt, next_fd, is_load,
                  load, parent, waited, tid, cp, fh, idx, signaled >>

\* filesys_remove returns true or false, which remove returns
remove_return(p) ==
  /\ machine = "on"
  /\ pc[p] = "filesys_remove"
  /\ \E ok \in { 0, 1 } : WriteResult(p, << >>, ok)
  /\ UNCHANGED << machine, sys, arg, exit_status, filesys_lock, fdt, next_fd, is_load,
                  load, parent, waited, tid, cp, fh, idx, signaled >>

\* open: the null test, lock_acquire, then into filesys_open
open(p) ==
  /\ machine = "on"
  /\ pc[p] = "SYS_OPEN"
  /\ IF arg[p][1] = NULL
       THEN /\ WriteResult(p, << >>, -1)
            /\ UNCHANGED filesys_lock
       ELSE /\ lock_acquire(p)
            /\ filesys_lock' = p
            /\ pc' = [pc EXCEPT ![p] = "filesys_open"]
            /\ log' = [log EXCEPT ![p] = @ \o << ACQUIRE, << "filesys_open", arg[p][1] >> >>]
            /\ UNCHANGED eax
  /\ UNCHANGED << machine, sys, arg, exit_status, fdt, next_fd, is_load, load, parent,
                  waited, tid, cp, fh, idx, signaled >>

\* (open returning -1 for a failed filesys_open without its lock_release)
open_filesys_open_held(p) ==
  /\ machine = "on"
  /\ pc[p] = "filesys_open"
  /\ \E f \in { NULL, FILE }, name \in Names :
       IF f = NULL
         THEN /\ WriteResult(p, << << "f", f >> >>, -1)
              /\ UNCHANGED << fh, filesys_lock >>
         ELSE /\ fh' = [fh EXCEPT ![p] = f]
              /\ log' = [log EXCEPT ![p] =
                           @ \o << << "f", f >> >>
                             \o (IF name = "prog" THEN << << "file_deny_write", f >> >>
                                                  ELSE << >>)
                             \o << << "process_add_file", f >> >>]
              /\ pc' = [pc EXCEPT ![p] = "process_add_file"]
              /\ UNCHANGED << eax, filesys_lock >>
  /\ UNCHANGED << machine, sys, arg, exit_status, fdt, next_fd, is_load, load, parent,
                  waited, tid, cp, idx, signaled >>

\* filesys_open returns: no file (release, -1), or a file, which is denied
\* writes when the name at the pointer is the thread's own name
open_filesys_open(p) ==
  /\ machine = "on"
  /\ pc[p] = "filesys_open"
  /\ \E f \in { NULL, FILE }, name \in Names :
       IF f = NULL
         THEN /\ filesys_lock' = NULL
              /\ WriteResult(p, << << "f", f >>, RELEASE >>, -1)
              /\ UNCHANGED fh
         ELSE /\ fh' = [fh EXCEPT ![p] = f]
              /\ log' = [log EXCEPT ![p] =
                           @ \o << << "f", f >> >>
                             \o (IF name = "prog" THEN << << "file_deny_write", f >> >>
                                                  ELSE << >>)
                             \o << << "process_add_file", f >> >>]
              /\ pc' = [pc EXCEPT ![p] = "process_add_file"]
              /\ UNCHANGED << eax, filesys_lock >>
  /\ UNCHANGED << machine, sys, arg, exit_status, fdt, next_fd, is_load, load, parent,
                  waited, tid, cp, idx, signaled >>

\* (open returning whatever process_add_file returned)
open_result_unchecked(results) == results

\* what open returns after process_add_file returned results
open_result(results) == IF results = FD_FULL THEN -1 ELSE results

\* process_add_file returns the new descriptor, or FD_FULL when the table is
\* full; then lock_release and open's return
open_process_add_file(p) ==
  /\ machine = "on"
  /\ pc[p] = "process_add_file"
  /\ LET results == IF next_fd[p] >= FD_FULL THEN FD_FULL ELSE next_fd[p] IN
       /\ IF results = FD_FULL
            THEN UNCHANGED << fdt, next_fd >>
            ELSE /\ fdt' = [fdt EXCEPT ![p] = @ \cup { results }]
                 /\ next_fd' = [next_fd EXCEPT ![p] = @ + 1]
       /\ filesys_lock' = NULL
       /\ WriteResult(p, << << "results", results >>, RELEASE >>, open_result(results))
  /\ UNCHANGED << machine, sys, arg, exit_status, is_load, load, parent, waited, tid,
                  cp, fh, idx, signaled >>

\* filesize: -1 without a file, else file_length
filesize(p) ==
  /\ machine = "on"
  /\ pc[p] = "SYS_FILESIZE"
  /\ \E f \in process_get_file(p, arg[p][1]) :
       IF filesize_path(f) = "fail"
         THEN WriteResult(p, << GET(f) >>, -1)
         ELSE \E len \in 0 .. MaxSize :
                WriteResult(p, << GET(f), << "file_length", f >> >>, len)
  /\ UNCHANGED << machine, sys, arg, exit_status, filesys_lock, fdt, next_fd, is_load,
                  load, parent, waited, tid, cp, fh, idx, signaled >>

\* read: lock_acquire and process_get_file, then the console loop (fd 0), the
\* early return (no file) or into file_read
read(p) ==
  /\ machine = "on"
  /\ pc[p] = "SYS_READ"
  /\ lock_acquire(p)
  /\ \E f \in process_get_file(p, arg[p][1]) :
       IF read_path(arg[p][1], f) = "console"
         THEN /\ filesys_lock' = p
              /\ fh' = [fh EXCEPT ![p] = f]
              /\ log' = [log EXCEPT ![p] = @ \o << ACQUIRE, GET(f) >>]
              /\ pc' = [pc EXCEPT ![p] = "input_getc"]
              /\ UNCHANGED eax
       ELSE IF read_path(arg[p][1], f) = "fail"
         THEN /\ WriteResult(p, << ACQUIRE, GET(f), RELEASE >>, -1)
              /\ UNCHANGED << filesys_lock, fh >>
         ELSE /\ filesys_lock' = p
              /\ fh' = [fh EXCEPT ![p] = f]
              /\ log' = [log EXCEPT ![p] = @ \o << ACQUIRE, GET(f), << "file_read", f >> >>]
              /\ pc' = [pc EXCEPT ![p] = "file_read"]
              /\ UNCHANGED eax
  /\ UNCHANGED << machine, sys, arg, exit_status, fdt, next_fd, is_load, load, parent,
                  waited, tid, cp, idx, signaled >>

\* (the console loop giving the lock back after each character)
read_input_getc_released(p) ==
  /\ machine = "on"
  /\ pc[p] = "input_getc"
  /\ filesys_lock' = NULL
  /\ IF ULt(idx[p], arg[p][3])
       THEN /\ \E ch \in Chars :
                 log' = [log EXCEPT ![p] =
                           @ \o << << "input_getc", AddW(arg[p][2], idx[p]), ch >> >>]
            /\ idx' = [idx EXCEPT ![p] = @ + 1]
            /\ UNCHANGED << pc, eax >>
       ELSE /\ WriteResult(p, << RELEASE >>, arg[p][3])
            /\ UNCHANGED idx
  /\ UNCHANGED << machine, sys, arg, exit_status, fdt, next_fd, is_load, load, parent,
                  waited, tid, cp, fh, signaled >>

\* one turn of the console loop: while i < size (i converted to unsigned),
\* input_getc delivers a character that is stored at buffer + i; after the
\* loop, lock_release and size is returned
read_input_getc(p) ==
  /\ machine = "on"
  /\ pc[p] = "input_getc"
  /\ IF ULt(idx[p], arg[p][3])
       THEN /\ \E ch \in Chars :
                 log' = [log EXCEPT ![p] =
                           @ \o << << "input_getc", AddW(arg[p][2], idx[p]), ch >> >>]
            /\ idx' = [idx EXCEPT ![p] = @ + 1]
            /\ UNCHANGED << pc, eax, filesys_lock >>
       ELSE /\ filesys_lock' = NULL
            /\ WriteResult(p, << RELEASE >>, arg[p][3])
            /\ UNCHANGED idx
  /\ UNCHANGED << machine, sys, arg, exit_status, fdt, next_fd, is_load, load, parent,
                  waited, tid, cp, fh, signaled >>

\* file_read returns its byte count; lock_release and read returns it
read_file_read(p) ==
  /\ machine = "on"
  /\ pc[p] = "file_read"
  /\ filesys_lock' = NULL
  /\ \E sizes \in Transferred(arg[p][3]) : WriteResult(p, << RELEASE >>, sizes)
  /\ UNCHANGED << machine, sys, arg, exit_status, fdt, next_fd, is_load, load, parent,
                  waited, tid, cp, fh, idx, signaled >>

\* write: lock_acquire and process_get_file, then into putbuf (fd 1), the
\* early return (no file) or into file_write
write(p) ==
  /\ machine = "on"
  /\ pc[p] = "SYS_WRITE"
  /\ lock_acquire(p)
  /\ \E f \in process_get_file(p, arg[p][1]) :
       IF write_path(arg[p][1], f) = "console"
         THEN /\ filesys_lock' = p
              /\ fh' = [fh EXCEPT ![p] = f]
              /\ log' = [log EXCEPT ![p] =
                           @ \o << ACQUIRE, GET(f), << "putbuf", arg[p][2], arg[p][3] >> >>]
              /\ pc' = [pc EXCEPT ![p] = "putbuf"]
              /\ UNCHANGED eax
       ELSE IF write_path(arg[p][1], f) = "fail"
         THEN /\ WriteResult(p, << ACQUIRE, GET(f), RELEASE >>, -1)
              /\ UNCHANGED << filesys_lock, fh >>
         ELSE /\ filesys_lock' = p
              /\ fh' = [fh EXCEPT ![p] = f]
              /\ log' = [log EXCEPT ![p] = @ \o << ACQUIRE, GET(f), << "file_write", f >> >>]
              /\ pc' = [pc EXCEPT ![p] = "file_write"]
              /\ UNCHANGED eax
  /\ UNCHANGED << machine, sys, arg, exit_status, fdt, next_fd, is_load, load, parent,
                  waited, tid, cp, idx, signaled >>

\* (write returning from the console path without its lock_release)
write_putbuf_held(p) ==
  /\ machine = "on"
  /\ pc[p] = "putbuf"
  /\ WriteResult(p, << >>, arg[p][3])
  /\ UNCHANGED << machine, sys, arg, exit_status, filesys_lock, fdt, next_fd, is_load,
                  load, parent, waited, tid, cp, fh, idx, signaled >>

\* putbuf returns; lock_release and size is returned
write_putbuf(p) ==
  /\ machine = "on"
  /\ pc[p] = "putbuf"
  /\ filesys_lock' = NULL
  /\ WriteResult(p, << RELEASE >>, arg[p][3])
  /\ UNCHANGED << machine, sys, arg, exit_status, fdt, next_fd, is_load, load, parent,
                  waited, tid, cp, fh, idx, signaled >>

\* file_write returns its byte count; lock_release and write returns it
write_file_write(p) ==
  /\ machine = "on"
  /\ pc[p] = "file_write"
  /\ filesys_lock' = NULL
  /\ \E sizes \in Transferred(arg[p][3]) : WriteResult(p, << RELEASE >>, sizes)
  /\ UNCHANGED << machine, sys, arg, exit_status, fdt, next_fd, is_load, load, parent,
                  waited, tid, cp, fh, idx, signaled >>

\* seek: file_seek on whatever process_get_file returned; file_seek asserts
\* that its file is not null
seek(p) ==
  /\ machine = "on"
  /\ pc[p] = "SYS_SEEK"
  /\ \E f \in process_get_file(p, arg[p][1]) :
       IF f = NULL
         THEN KernelFault(p, << GET(f), << "file_seek", f >> >>)
         ELSE /\ ReturnVoid(p, << GET(f), << "file_seek", f >> >>)
              /\ UNCHANGED << machine, exit_status >>
  /\ UNCHANGED << sys, arg, eax, filesys_lock, fdt, next_fd, is_load, load, parent,
                  waited, tid, cp, fh, idx, signaled >>

\* tell: file_tell on whatever process_get_file returned; file_tell asserts
\* that its file is not null
tell(p) ==
  /\ machine = "on"
  /\ pc[p] = "SYS_TELL"
  /\ \E f \in process_get_file(p, arg[p][1]) :
       IF f = NULL
         THEN /\ KernelFault(p, << GET(f), << "file_tell", f >> >>)
              /\ UNCHANGED eax
         ELSE /\ \E pos \in 0 .. MaxSize :
                   WriteResult(p, << GET(f), << "file_tell", f >> >>, pos)
              /\ UNCHANGED << machine, exit_status >>
  /\ UNCHANGED << sys, arg, filesys_lock, fdt, next_fd, is_load, load, parent, waited,
                  tid, cp, fh, idx, signaled >>

\* close: process_close_file (fd) empties the slot, if it holds a file
close(p) ==
  /\ machine = "on"
  /\ pc[p] = "SYS_CLOSE"
  /\ fdt' = [fdt EXCEPT ![p] = @ \ { arg[p][1] }]
  /\ ReturnVoid(p, << << "process_close_file", arg[p][1] >> >>)
  /\ UNCHANGED << machine, sys, arg, exit_status, filesys_lock, next_fd, is_load, load,
                  parent, waited, tid, cp, fh, idx, signaled >>

\* a step of thread p inside the kernel, after the trap
Handler(p) ==
  \/ intr_exit(p)
  \/ halt(p)
  \/ exit(p)
  \/ thread_exit(p)
  \/ exec_process_execute(p)
  \/ exec_sema_down(p)
  \/ exec_return(p)
  \/ start_process_load(p)
  \/ start_process_sema_up(p)
  \/ wait(p)
  \/ create(p)
  \/ create_return(p)
  \/ remove(p)
  \/ remove_return(p)
  \/ open(p)
  \/ open_filesys_open(p)
  \/ open_process_add_file(p)
  \/ filesize(p)
  \/ read(p)
  \/ read_input_getc(p)
  \/ read_file_read(p)
  \/ write(p)
  \/ write_putbuf(p)
  \/ write_file_write(p)
  \/ seek(p)
  \/ tell(p)
  \/ close(p)

\* every thread traps, with the narrow inputs: the interleavings
Next == \E p \in Procs : Trap(p, Narrow) \/ Handler(p)

Spec == Init /\ [][Next]_vars

\* only the initial process traps, with the wide inputs; the threads it
\* exec's load, signal and then stay in user mode
NextOne == Trap(1, Wide) \/ \E p \in Procs : Handler(p)

SpecOne == Init /\ [][NextOne]_vars

\* The scheduler's guarantees, for progress.  A thread inside the kernel that
\* can take a step is run in the end (WF on its kernel steps: every call it
\* makes outside this file returns, a new thread gets to load and to signal).
\* A thread waiting in lock_acquire gets the lock in the end although the lock
\* is taken and released by others meanwhile (SF: the semaphore under the
\* lock wakes its waiters in the order they came).  User code is under no
\* obligation: a thread in user mode need not trap again.
Small ==
  [ esps |-> { USER_BASE },
    ptrs |-> { USER_BASE },
    fds |-> 0 .. FIRST_FD,
    sizes |-> { 1 },
    big |-> { },
    statuses |-> { 0 },
    tids |-> Procs,
    numbers |-> 0 .. 13 ]

NextFair == \E p \in Procs : Trap(p, Small) \/ Handler(p)

Fairness ==
  \A p \in Procs :
    /\ WF_vars(Handler(p))
    /\ SF_vars(open(p) \/ read(p) \/ write(p))

SpecFair == Init /\ [][NextFair]_vars /\ Fairness

\* create, remove and open called with any name, the null pointer included
\* (which the dispatcher's check_address keeps from them): the call itself
NameHandlers == { "SYS_CREATE", "SYS_REMOVE", "SYS_OPEN" }
NamePtrs == { NULL, USER_BASE, INT_MAX, INT_MIN, KERNEL_BASE - 1 }

name_call(p, c, file) ==
  /\ machine = "on"
  /\ pc[p] = "user"
  /\ c = "SYS_OPEN" => (next_fd[p] < FIRST_FD + MaxOpen \/ next_fd[p] >= FD_FULL)
  /\ pc' = [pc EXCEPT ![p] = c]
  /\ sys' = [sys EXCEPT ![p] = c]
  /\ arg' = [arg EXCEPT ![p] = IF c = "SYS_CREATE" THEN << file, 0 >> ELSE << file >>]
  /\ UNCHANGED << machine, eax, log, exit_status, filesys_lock, fdt, next_fd, is_load,
                  load, parent, waited, tid, cp, fh, idx, signaled >>

\* the three handlers on their own, called by the initial process
NextNames ==
  \/ \E c \in NameHandlers, file \in NamePtrs : name_call(1, c, file)
  \/ create(1)
  \/ create_return(1)
  \/ remove(1)
  \/ remove_return(1)
  \/ open(1)
  \/ open_filesys_open(1)
  \/ open_process_add_file(1)
  \/ intr_exit(1)

SpecNames == Init /\ [][NextNames]_vars

\* ================================================================ claims
Events(p) == { log[p][k] : k \in DOMAIN log[p] }
Did(p, kind) == \E e \in Events(p) : e[1] = kind

\* the user range [0x8048000, 0xc0000000) on words held as ints: the patterns
\* from USER_BASE up to INT_MAX, and the negative ones below 0xc0000000
InUserRange(a) == a >= 134512640 \/ a < -1073741824

\* C1: no two threads are at the same time inside filesys_create,
\* filesys_remove, filesys_open, file_read or file_write.
FsCalls == { "filesys_create", "filesys_remove", "filesys_open", "file_read", "file_write" }

C1_FsCallsExclusive ==
  \A p, q \in Procs : (pc[p] \in FsCalls /\ pc[q] \in FsCalls) => p = q

\* C2: check_address (a) calls exit (-1) exactly when a is outside
\* [USER_BASE, KERNEL_BASE): the thread then heads for thread_exit with
\* exit_status -1 and nothing else done; for a inside the range it returns and
\* the status of the running thread is untouched.
Rejected(p, k) ==
  /\ k + 2 <= Len(log[p])
  /\ log[p][k + 1] = << "exit_status", -1 >>
  /\ log[p][k + 2] = << "printf", -1 >>

C2_CheckAddress ==
  \A p \in Procs : \A k \in DOMAIN log[p] :
    log[p][k][1] = "check" =>
      /\ Rejected(p, k) <=> ~InUserRange(log[p][k][2])
      /\ Rejected(p, k) =>
           /\ pc[p] = "thread_exit"
           /\ exit_status[p] = -1
           /\ Len(log[p]) = k + 2
      /\ ~Rejected(p, k) =>
           /\ k < Len(log[p]) => log[p][k + 1][1] # "exit_status"
           /\ pc[p] # "thread_exit" => exit_status[p] = 0

\* C2's case: a trap in which one address passed the check and a later one
\* (here: null) was rejected
C2_Witness ==
  \E p \in Procs : \E j, k \in DOMAIN log[p] :
    /\ j < k
    /\ log[p][j][1] = "check" /\ InUserRange(log[p][j][2]) /\ ~Rejected(p, j)
    /\ log[p][k] = << "check", 0 >> /\ Rejected(p, k)
    /\ pc[p] = "thread_exit"

\* C3: the parent of an exec'ed child neither returns from sema_down, nor
\* reads the child's is_load, nor has exec's value in eax, before the child
\* has done its sema_up.
C3_HandshakeBeforeRead ==
  \A p \in Procs :
    (sys[p] = "SYS_EXEC" /\ cp[p] # NULL
       /\ (pc[p] \in {"exec_check", "ret"} \/ Did(p, "is_load") \/ Did(p, "eax")))
      => signaled[cp[p]] # "no"

\* C3's case: the parent is back from exec with a child that has signaled
C3_Witness ==
  \E p \in Procs :
    /\ sys[p] = "SYS_EXEC" /\ cp[p] # NULL /\ pc[p] = "ret"
    /\ Did(p, "is_load") /\ eax[p].written
    /\ signaled[cp[p]] # "no"

\* C4: when process_execute fails and get_child_process returns NULL, exec
\* returns -1 and the caller goes on: it never does sema_down on the missing
\* record and is never stopped there.
C4_ExecWithoutChild ==
  \A p \in Procs :
    (sys[p] = "SYS_EXEC" /\ Did(p, "process_execute") /\ cp[p] = NULL
       /\ pc[p] # "sema_down")
      => /\ ~Did(p, "sema_down")
         /\ machine = "on"
         /\ pc[p] = "ret"
         /\ eax[p] = [written |-> TRUE, value |-> -1]

\* C5: when exec returns with a child record, eax holds -1 if the child's
\* sema_up went with is_load false, and the tid process_execute returned if
\* it went with is_load true.
C5_ExecResult ==
  \A p \in Procs :
    (sys[p] = "SYS_EXEC" /\ cp[p] # NULL /\ pc[p] = "ret")
      => /\ eax[p].written
         /\ signaled[cp[p]] = "failed" => eax[p].value = -1
         /\ signaled[cp[p]] = "loaded" =>
              /\ eax[p].value = cp[p]
              /\ << "process_execute", eax[p].value >> \in Events(p)
         /\ signaled[cp[p]] \in { "failed", "loaded" }

\* C5's cases: an exec that returned -1 for a failed load, and (in another
\* state) one that returned the child's tid
C5_Witness ==
  \E p \in Procs :
    /\ sys[p] = "SYS_EXEC" /\ cp[p] # NULL /\ pc[p] = "ret"
    /\ signaled[cp[p]] = "failed" /\ eax[p].value = -1

C5_WitnessLoaded ==
  \E p \in Procs :
    /\ sys[p] = "SYS_EXEC" /\ cp[p] # NULL /\ pc[p] = "ret"
    /\ signaled[cp[p]] = "loaded" /\ eax[p].value = cp[p]

\* C6: every 4-byte read the dispatcher makes from the user stack, the number
\* at [esp] and the slots above it, touches only bytes inside
\* [USER_BASE, KERNEL_BASE).
C6_ReadsInRange ==
  \A p \in Procs : \A k \in DOMAIN log[p] :
    log[p][k][1] = "read" =>
      \A b \in 0 .. 3 : InUserRange(AddW(log[p][k][2], b))

\* C7: when process_get_file finds no file for the descriptor of read, write
\* or filesize (the console descriptor of read and write aside), the handler
\* returns -1 into eax without calling file_read, file_write or file_length,
\* and the thread is not terminated.
Console(p) ==
  \/ sys[p] = "SYS_READ" /\ arg[p][1] = 0
  \/ sys[p] = "SYS_WRITE" /\ arg[p][1] = 1

C7_UnresolvedFd ==
  \A p \in Procs :
    (sys[p] \in { "SYS_READ", "SYS_WRITE", "SYS_FILESIZE" }
       /\ << "process_get_file", NULL >> \in Events(p) /\ ~Console(p))
      => /\ pc[p] = "ret"
         /\ machine = "on"
         /\ eax[p] = [written |-> TRUE, value |-> -1]
         /\ ~Did(p, "file_read") /\ ~Did(p, "file_write") /\ ~Did(p, "file_length")
         /\ ~Did(p, "exit_status")
         /\ exit_status[p] = 0

\* C7's case: a read of a descriptor above the console's that holds no file
C7_Witness ==
  \E p \in Procs :
    /\ sys[p] = "SYS_READ" /\ pc[p] = "ret"
    /\ << "process_get_file", NULL >> \in Events(p)
    /\ arg[p][1] > 1 /\ arg[p][1] \notin fdt[p]
    /\ eax[p].value = -1

\* C8: seek and tell never hand a null file to file_seek or file_tell.
C8_NoNullFile ==
  \A p \in Procs :
    /\ << "file_seek", NULL >> \notin Events(p)
    /\ << "file_tell", NULL >> \notin Events(p)

\* C9: read (0, buf, n) makes exactly n calls of input_getc, stores the i-th
\* character at buf + i and returns n; write (1, buf, n) hands buf and n to
\* putbuf once and returns n; whatever process_get_file found for 0 or 1.
\* (Stated of the handler once it is entered, which lock_acquire marks.)
IsGetc(e) == e[1] = "input_getc"
IsPutbuf(e) == e[1] = "putbuf"

C9_Console ==
  \A p \in Procs :
    /\ (sys[p] = "SYS_READ" /\ Did(p, "lock_acquire") /\ arg[p][1] = 0)
         => /\ pc[p] \in { "input_getc", "ret" }
            /\ pc[p] = "ret" =>
                 LET got == SelectSeq(log[p], IsGetc) IN
                   /\ eax[p] = [written |-> TRUE, value |-> arg[p][3]]
                   /\ Len(got) = arg[p][3]
                   /\ \A i \in DOMAIN got : got[i][2] = AddW(arg[p][2], i - 1)
    /\ (sys[p] = "SYS_WRITE" /\ Did(p, "lock_acquire") /\ arg[p][1] = 1)
         => /\ pc[p] \in { "putbuf", "ret" }
            /\ SelectSeq(log[p], IsPutbuf) = << << "putbuf", arg[p][2], arg[p][3] >> >>
            /\ pc[p] = "ret" => eax[p] = [written |-> TRUE, value |-> arg[p][3]]

\* C9's case: a console read of two bytes or more has returned, in a thread
\* whose table holds nothing at descriptor 0
C9_Witness ==
  \E p \in Procs :
    /\ sys[p] = "SYS_READ" /\ pc[p] = "ret"
    /\ arg[p][1] = 0 /\ arg[p][3] >= 2
    /\ << "process_get_file", NULL >> \in Events(p)

\* ... and a console write of 0xffffffff bytes has returned, in a thread whose
\* table holds a file at descriptor 1
C9_WitnessWrite ==
  \E p \in Procs :
    /\ sys[p] = "SYS_WRITE" /\ pc[p] = "ret"
    /\ arg[p][1] = 1 /\ arg[p][3] = -1
    /\ << "process_get_file", FILE >> \in Events(p)

\* C10: a trap whose number is none of the 13 cases, with a valid stack
\* pointer, goes straight to thread_exit: no slot is read, exit_status is not
\* written, no notice is printed and eax is not written.
C10_UnknownNumber ==
  \A p \in Procs :
    (Len(log[p]) >= 2 /\ log[p][2][1] = "read" /\ log[p][2][3] \notin 0 .. 12)
      => /\ pc[p] = "thread_exit"
         /\ log[p] = << << "check", log[p][2][2] >>, log[p][2] >>
         /\ arg[p] = << >>
         /\ exit_status[p] = 0
         /\ ~eax[p].written

\* C10's case: the number 13 was read at a valid stack pointer
C10_Witness ==
  \E p \in Procs :
    /\ Len(log[p]) = 2 /\ log[p][2] = << "read", 134512640, 13 >>
    /\ pc[p] = "thread_exit"

\* C11: whenever open, read or write returns, by whichever path, the thread
\* does not hold filesys_lock; during the call it took the lock at most once,
\* and it holds the lock exactly between that lock_acquire and its lock_release.
IsAcquire(e) == e[1] = "lock_acquire"
IsRelease(e) == e[1] = "lock_release"
Acquires(p) == Len(SelectSeq(log[p], IsAcquire))
Releases(p) == Len(SelectSeq(log[p], IsRelease))
LockHandlers == { "SYS_OPEN", "SYS_READ", "SYS_WRITE" }

C11_LockReleased ==
  \A p \in Procs :
    sys[p] \in LockHandlers =>
      /\ Acquires(p) <= 1
      /\ Releases(p) <= Acquires(p)
      /\ (filesys_lock = p) <=> (Acquires(p) = 1 /\ Releases(p) = 0)
      /\ pc[p] = "ret" => (filesys_lock # p /\ Releases(p) = Acquires(p))

\* C11's case: open has returned -1 because filesys_open found no file, with
\* the lock taken and given back on the way
C11_Witness ==
  \E p \in Procs :
    /\ sys[p] = "SYS_OPEN" /\ pc[p] = "ret"
    /\ Did(p, "filesys_open") /\ ~Did(p, "process_add_file")
    /\ Acquires(p) = 1 /\ Releases(p) = 1
    /\ eax[p].value = -1

\* C12: a thread that exits through the exit syscall or through a rejected
\* address has stored its exit_status exactly once by the time it stands
\* before thread_exit, with the status argument for exit and -1 for a rejected
\* address; and exit_status of a thread changes only in that thread's own step
\* into thread_exit, never in a step of another thread or after its death.
IsStatusWrite(e) == e[1] = "exit_status"

C12_StatusOnce ==
  \A p \in Procs :
    Did(p, "exit_status") =>
      LET w == SelectSeq(log[p], IsStatusWrite) IN
        /\ pc[p] = "thread_exit"
        /\ Len(w) = 1
        /\ exit_status[p] = w[1][2]
        /\ w[1][2] = (IF sys[p] = "SYS_EXIT" /\ Len(arg[p]) = 1 THEN arg[p][1] ELSE -1)

C12_OwnWrite ==
  \A p \in Procs :
    exit_status'[p] # exit_status[p] =>
      /\ pc[p] \notin { "thread_exit", "dead", "unborn" }
      /\ pc'[p] = "thread_exit"
      /\ \A q \in Procs \ { p } : pc'[q] = pc[q] /\ log'[q] = log[q]

C12_ExitStatus == []C12_StatusOnce /\ [][C12_OwnWrite]_vars

\* C12's case: an exec'ed thread has called exit (-1) and stands before
\* thread_exit with its status stored, while its parent, still alive, has its
\* own status untouched
C12_Witness ==
  \E p \in Procs :
    /\ parent[p] # NULL /\ pc[p] = "thread_exit"
    /\ sys[p] = "SYS_EXIT" /\ arg[p] = << -1 >>
    /\ log[p][Len(log[p]) - 1] = << "exit_status", -1 >>
    /\ exit_status[p] = -1
    /\ Running(parent[p]) /\ exit_status[parent[p]] = 0

\* C13: open returns -1 exactly when its name is null, filesys_open returned
\* no file, or process_add_file returned 64; otherwise it returns what
\* process_add_file returned, which is not negative.  With a null name it
\* takes no lock and calls nothing.
C13_OpenResult ==
  \A p \in Procs :
    (sys[p] = "SYS_OPEN" /\ pc[p] = "ret") =>
      /\ eax[p].written
      /\ (eax[p].value = -1) <=>
           \/ arg[p][1] = NULL
           \/ << "f", NULL >> \in Events(p)
           \/ << "results", FD_FULL >> \in Events(p)
      /\ eax[p].value # -1 =>
           /\ << "results", eax[p].value >> \in Events(p)
           /\ eax[p].value >= 0
      /\ arg[p][1] = NULL =>
           /\ ~Did(p, "lock_acquire")
           /\ ~Did(p, "filesys_open")
           /\ ~Did(p, "file_deny_write")
           /\ ~Did(p, "process_add_file")

\* C13's cases: open has returned -1 for a full table, and (in another state)
\* for a null name
C13_Witness ==
  \E p \in Procs :
    /\ sys[p] = "SYS_OPEN" /\ pc[p] = "ret"
    /\ << "results", FD_FULL >> \in Events(p)
    /\ eax[p].value = -1

C13_WitnessNull ==
  \E p \in Procs :
    /\ sys[p] = "SYS_OPEN" /\ pc[p] = "ret"
    /\ arg[p][1] = NULL /\ eax[p].value = -1

\* C14: a thread inside filesys_open, file_deny_write, process_add_file,
\* file_read or file_write for open, read or write holds filesys_lock, so no
\* two threads are inside those calls at once.
LockedCalls == { "filesys_open", "process_add_file", "file_read", "file_write" }

C14_LockedCalls ==
  /\ \A p \in Procs : pc[p] \in LockedCalls => filesys_lock = p
  /\ \A p, q \in Procs : (pc[p] \in LockedCalls /\ pc[q] \in LockedCalls) => p = q

\* C14's case: one thread is inside file_write with the lock, and another has
\* trapped into read and stands before lock_acquire
C14_Witness ==
  \E p, q \in Procs :
    /\ pc[p] = "file_write" /\ filesys_lock = p
    /\ pc[q] = "SYS_READ"

\* C15: get_argument reads slot i from esp + 4 + 4 * i and nowhere else, the
\* slots in increasing order, each right after check_address has passed the
\* slot's address; when the address of slot k is rejected the thread exits
\* with status -1 and neither slot k nor a later one is read.
ReadAt(p) == { k \in DOMAIN log[p] : log[p][k][1] = "read" }

C15_GetArgument ==
  \A p \in Procs :
    (Len(log[p]) >= 2 /\ log[p][2][1] = "read") =>
      LET sp == log[p][1][2]
          count == ArgCount(sys[p])
          n == Len(arg[p])
          slot(i) == AddW(sp, 4 + 4 * i)
      IN  /\ count \in 0 .. 3
          /\ n <= count
          /\ ReadAt(p) = { 2 } \cup { 4 + 2 * i : i \in 0 .. (n - 1) }
          /\ \A i \in 0 .. (n - 1) :
                /\ log[p][3 + 2 * i] = << "check", slot(i) >>
                /\ log[p][4 + 2 * i] = << "read", slot(i), arg[p][i + 1] >>
                /\ InUserRange(slot(i))
          /\ n < count =>
                /\ log[p][3 + 2 * n] = << "check", slot(n) >>
                /\ ~InUserRange(slot(n))
                /\ Rejected(p, 3 + 2 * n)
                /\ Len(log[p]) = 5 + 2 * n
                /\ pc[p] = "thread_exit"
                /\ exit_status[p] = -1

\* C15's case: a handler with two slots or more, whose slot 0 was read and
\* whose slot 1 lies at KERNEL_BASE
C15_Witness ==
  \E p \in Procs :
    /\ Len(log[p]) = 7 /\ Len(arg[p]) = 1
    /\ ArgCount(sys[p]) >= 2
    /\ log[p][4][1] = "read"
    /\ log[p][5] = << "check", -1073741824 >>
    /\ pc[p] = "thread_exit"

\* C16: exec, create, remove and open are entered only with arg[0] inside
\* [USER_BASE, KERNEL_BASE), read and write only with arg[1] inside it; and a
\* trap in which check_address rejected the stack pointer, a slot or a pointer
\* argument never enters its handler: no lock_acquire, no call into the
\* filesystem or the process subsystem, and eax is not written.
DispatchEvents == { "check", "read", "exit_status", "printf" }
InHandler(p) ==
  \/ pc[p] \notin { "user", "unborn", "dead", "thread_exit" }
  \/ \E e \in Events(p) : e[1] \notin DispatchEvents
Faulted(p) == \E k \in DOMAIN log[p] : log[p][k][1] = "check" /\ Rejected(p, k)

C16_CheckedPointers ==
  \A p \in Procs :
    /\ (InHandler(p) /\ sys[p] \in { "SYS_EXEC", "SYS_CREATE", "SYS_REMOVE", "SYS_OPEN" })
         => InUserRange(arg[p][1])
    /\ (InHandler(p) /\ sys[p] \in { "SYS_READ", "SYS_WRITE" })
         => InUserRange(arg[p][2])
    /\ Faulted(p) =>
         /\ ~InHandler(p)
         /\ pc[p] = "thread_exit"
         /\ filesys_lock # p
         /\ ~eax[p].written

\* C16's case: read was trapped with its three slots readable and its buffer
\* at KERNEL_BASE
C16_Witness ==
  \E p \in Procs :
    /\ sys[p] = "SYS_READ" /\ Len(arg[p]) = 3
    /\ arg[p][2] = -1073741824
    /\ Faulted(p) /\ pc[p] = "thread_exit"

\* C17: under the scheduler's guarantees every trap comes to an end: its
\* handler returns (eax written where the syscall has a value) or the thread
\* is on its way out.  No thread stays for ever in lock_acquire or in exec's
\* sema_down, and the threads never all wait for one another.  (Granted here:
\* a power-off by halt ends every trap, and wait may stay with a child that
\* is still alive.)
InKernel(p) ==
  pc[p] \notin { "user", "unborn", "loading", "loaded", "dead", "thread_exit", "ret" }
HasValue(c) == c \notin { "SYS_HALT", "SYS_EXIT", "SYS_SEEK", "SYS_CLOSE", "default", "none" }
Terminal(p) ==
  \/ pc[p] = "ret" /\ (HasValue(sys[p]) => eax[p].written)
  \/ pc[p] \in { "user", "thread_exit", "dead" }
WaitingForChild(p) ==
  /\ pc[p] = "SYS_WAIT"
  /\ arg[p][1] \in Procs
  /\ parent[arg[p][1]] = p /\ ~waited[arg[p][1]] /\ pc[arg[p][1]] # "dead"

C17_EveryTrapEnds ==
  \A p \in Procs :
    [](InKernel(p) => <>(Terminal(p) \/ machine = "off" \/ WaitingForChild(p)))

\* ... what is left of C17 when a kernel panic counts as an end as well
C17_EndsOrStops ==
  \A p \in Procs :
    [](InKernel(p) => <>(Terminal(p) \/ machine # "on" \/ WaitingForChild(p)))

\* C18: no thread is terminated by this file's code while it holds
\* filesys_lock: the lock is held only inside the calls open, read and write
\* make between lock_acquire and lock_release, and check_address, the exit
\* handler and the default case's thread_exit all run with the lock not held
\* by the thread; so a thread before thread_exit, or dead, never holds it.
HeldAt == { "filesys_open", "process_add_file", "input_getc", "file_read", "putbuf",
            "file_write" }

C18_HolderAlive ==
  \A p \in Procs :
    /\ filesys_lock = p => pc[p] \in HeldAt
    /\ pc[p] \in { "thread_exit", "dead" } => filesys_lock # p

C18_EndsUnlocked ==
  \A p \in Procs :
    \/ /\ Len(log'[p]) > Len(log[p])
       /\ \E k \in (Len(log[p]) + 1) .. Len(log'[p]) :
            log'[p][k][1] \in { "check", "exit_status" }
    \/ pc'[p] = "thread_exit" /\ pc[p] # "thread_exit"
    => (filesys_lock # p /\ filesys_lock' # p)

C18_NoExitWithLock == []C18_HolderAlive /\ [][C18_EndsUnlocked]_vars

\* C18's case: a thread that took and released the lock earlier in its life
\* (it holds a descriptor from open) has called exit and stands before
\* thread_exit
C18_Witness ==
  \E p \in Procs :
    /\ pc[p] = "thread_exit" /\ sys[p] = "SYS_EXIT"
    /\ next_fd[p] = FIRST_FD + 1 /\ FIRST_FD \in fdt[p]
    /\ Did(p, "exit_status")
    /\ filesys_lock # p

\* C19: a thread inside exec or wait, and so a parent waiting in sema_down
\* for its child's load, never holds filesys_lock; exec and wait neither
\* take nor release the lock, and none of their steps changes its holder.
ProcessCalls == { "SYS_EXEC", "SYS_WAIT" }

C19_Unlocked ==
  \A p \in Procs :
    sys[p] \in ProcessCalls =>
      /\ filesys_lock # p
      /\ ~Did(p, "lock_acquire") /\ ~Did(p, "lock_release")

C19_LockUntouched ==
  \A p \in Procs :
    (sys[p] \in ProcessCalls /\ (pc'[p] # pc[p] \/ log'[p] # log[p]))
      => filesys_lock' = filesys_lock

C19_ExecWaitNoLock == []C19_Unlocked /\ [][C19_LockUntouched]_vars

\* C19's case: the parent still stands in exec's sema_down while the child it
\* created, already in user mode, has trapped and holds the lock
C19_Witness ==
  \E p, c \in Procs :
    /\ sys[p] = "SYS_EXEC" /\ pc[p] = "sema_down" /\ cp[p] = c
    /\ filesys_lock = c /\ pc[c] \in HeldAt

\* C20: a thread in read's console loop holds filesys_lock from before its
\* first input_getc until after its last: while it waits in input_getc it is
\* the holder, no other thread is inside open, read or write past
\* lock_acquire, none gets past lock_acquire in a step taken meanwhile, and
\* the lock_release comes only when all n characters have been delivered.
FirstAt(p, kind) == CHOOSE k \in DOMAIN log[p] : log[p][k][1] = kind

C20_HeldWhileReading ==
  \A p \in Procs :
    /\ pc[p] = "input_getc" =>
         /\ sys[p] = "SYS_READ" /\ arg[p][1] = 0
         /\ filesys_lock = p
         /\ Did(p, "lock_acquire") /\ ~Did(p, "lock_release")
         /\ \A q \in Procs \ { p } : pc[q] \notin HeldAt
    /\ (sys[p] = "SYS_READ" /\ Did(p, "input_getc")) =>
         /\ \A k \in DOMAIN log[p] :
              log[p][k][1] = "input_getc" => FirstAt(p, "lock_acquire") < k
         /\ Did(p, "lock_release") =>
              /\ Len(SelectSeq(log[p], IsGetc)) = arg[p][3]
              /\ \A k \in DOMAIN log[p] :
                   log[p][k][1] = "input_getc" => k < FirstAt(p, "lock_release")

C20_NoneGetsIn ==
  \A p \in Procs :
    pc[p] = "input_getc" =>
      /\ \A q \in Procs \ { p } :
           /\ Len(SelectSeq(log'[q], IsAcquire)) <= Len(SelectSeq(log[q], IsAcquire))
           /\ pc'[q] \notin HeldAt
      /\ filesys_lock' # p => Len(SelectSeq(log'[p], IsGetc)) = arg[p][3]

C20_ConsoleReadLocked == []C20_HeldWhileReading /\ [][C20_NoneGetsIn]_vars

\* C20's case: one thread is in the console loop with one of its two
\* characters delivered, and another has trapped into write and waits for the
\* lock
C20_Witness ==
  \E p, q \in Procs :
    /\ pc[p] = "input_getc" /\ arg[p][3] = 2 /\ idx[p] = 1
    /\ filesys_lock = p
    /\ pc[q] = "SYS_WRITE"

====
